---- MODULE Spec2Model ----
(***************************************************************************)
(* Model of the argument sanity checks of insanity/sanity_checks.py:       *)
(* sanitize_type, sanitize_range, sanitize_value and sanitize_iterable.    *)
(*                                                                         *)
(* The four checks are pure functions.  Each is an operator that computes  *)
(* the outcome of one call the way the code computes it: the exception     *)
(* class raised (or "none"), the line of the raise statement, the chain of *)
(* call lines through which it propagated, and the arguments with which    *)
(* the pluggable equality function and the per-element callback were       *)
(* invoked.  The specification draws the arguments of one call in Init and *)
(* applies the called function in one action.                              *)
(*                                                                         *)
(* arg_name is always a str and the flags are always bools in the model,   *)
(* so the argument checks of those parameters never fire and are left out. *)
(***************************************************************************)
EXTENDS Integers, Sequences, FiniteSets

\* ------------------------------------------------------------------------
\* Bounds
\* ------------------------------------------------------------------------

\* longest collection passed to sanitize_iterable / longest target sequence
MaxLen == 2
\* numbers passed to sanitize_range lie in -1 .. MaxNum
MaxNum == 3
\* length constraints passed to sanitize_iterable lie in 0 .. MaxLenArg
MaxLenArg == 1

\* ------------------------------------------------------------------------
\* Python values
\* ------------------------------------------------------------------------
\* A value is a record: ty is the name of its class, nm the name of the
\* class it denotes when it is a type object, n its number when it is an
\* int or a bool (or the character code of a one-character string piece),
\* items its elements when it is a list, a str or a generator.

PyNone == [ty |-> "NoneType", nm |-> "", n |-> 0, items |-> <<>>]
PyInt(k) == [ty |-> "int", nm |-> "", n |-> k, items |-> <<>>]
PyBool(b) == [ty |-> "bool", nm |-> "", n |-> IF b THEN 1 ELSE 0, items |-> <<>>]
PyChr(c) == [ty |-> "chr", nm |-> "", n |-> c, items |-> <<>>]
\* a str is the sequence of its characters
PyStr(cs) == [ty |-> "str", nm |-> "", n |-> 0, items |-> [i \in 1..Len(cs) |-> PyChr(cs[i])]]
PyList(es) == [ty |-> "list", nm |-> "", n |-> 0, items |-> es]
\* a generator object: an Iterable that is not Sized and is exhausted by
\* the first traversal
PyGenerator(es) == [ty |-> "generator", nm |-> "", n |-> 0, items |-> es]
\* a type object, e.g. PyType("int") is the class int
PyType(name) == [ty |-> "type", nm |-> name, n |-> 0, items |-> <<>>]

\* the classes and abstract base classes a class is a subclass of
Bases(ty) ==
    CASE ty = "bool" -> {"bool", "int", "Number", "object"}
      [] ty = "int" -> {"int", "Number", "object"}
      [] ty = "str" -> {"str", "Iterable", "Sized", "object"}
      [] ty = "list" -> {"list", "Iterable", "Sized", "object"}
      [] ty = "generator" -> {"generator", "Iterable", "object"}
      [] OTHER -> {ty, "object"}

\* isinstance(v, t) for a type object t
isinstance(v, t) == t.nm \in Bases(v.ty)

\* isinstance(v, type)
IsType(v) == v.ty = "type"

\* isinstance(v, collections.Iterable)
IsIterable(v) == "Iterable" \in Bases(v.ty)

\* isinstance(v, collections.Sized)
IsSized(v) == "Sized" \in Bases(v.ty)

\* the elements that `for e in v` yields on a fresh iterable v; iterating a
\* str yields its one-character strings
Iter(v) ==
    IF v.ty = "str"
    THEN [i \in 1..Len(v.items) |-> PyStr(<<v.items[i].n>>)]
    ELSE v.items

\* what is left to iterate after v has been traversed once completely
AfterTraversal(v, rest) == IF v.ty = "generator" THEN <<>> ELSE rest

\* ------------------------------------------------------------------------
\* Message templates and str.format
\* ------------------------------------------------------------------------
\* A template is the sequence of its replacement fields, "" for a positional
\* field "{}" and the name for a named field "{name}".  NoMsg is
\* error_msg=None.

NoMsg == [given |-> FALSE, fields |-> <<>>]
Template(fs) == [given |-> TRUE, fields |-> fs]

\* Where the wording of a message matters, a template also has its pieces:
\* the replacement fields and the literal text between them that states a
\* comparison symbol or a connective.
Field(name) == [kind |-> "field", s |-> name]
Literal(text) == [kind |-> "literal", s |-> text]
TemplateOf(pieces) ==
    LET fs == SelectSeq(pieces, LAMBDA p : p.kind = "field")
    IN  [given |-> TRUE, fields |-> [i \in DOMAIN fs |-> fs[i].s], pieces |-> pieces]

\* the pieces of any template
Pieces(t) ==
    IF "pieces" \in DOMAIN t THEN t.pieces
    ELSE [i \in DOMAIN t.fields |-> Field(t.fields[i])]

\* A formatted message is the sequence of what its pieces print: a text
\* (a literal, a name or a comparison symbol) or the str() of a value.
Text(text) == [s |-> text, v |-> [ty |-> "NoneType", nm |-> "", n |-> 0, items |-> <<>>], isval |-> FALSE]
Shown(value) == [s |-> "", v |-> value, isval |-> TRUE]

\* template.format(**env) for a template whose fields are all keys of env
Render(t, env) ==
    [i \in DOMAIN Pieces(t) |->
        IF Pieces(t)[i].kind = "literal" THEN Text(Pieces(t)[i].s)
        ELSE env[Pieces(t)[i].s]]

\* the number of positional fields among the first i fields
RECURSIVE Positionals(_, _)
Positionals(fs, i) ==
    IF i = 0 THEN 0
    ELSE Positionals(fs, i - 1) + (IF fs[i] = "" THEN 1 ELSE 0)

\* the exception str.format raises on template t with npos positional
\* arguments and the keyword arguments names: fields are replaced from left
\* to right, a positional field without argument is an IndexError, a named
\* field without argument a KeyError
Format(t, npos, names) ==
    LET bad(i) == IF t.fields[i] = ""
                  THEN Positionals(t.fields, i) > npos
                  ELSE t.fields[i] \notin names
        first == IF \E i \in DOMAIN t.fields : bad(i)
                 THEN CHOOSE i \in DOMAIN t.fields :
                          bad(i) /\ \A j \in 1..(i - 1) : ~bad(j)
                 ELSE 0
    IN  IF first = 0 THEN "none"
        ELSE IF t.fields[first] = "" THEN "IndexError" ELSE "KeyError"

\* ------------------------------------------------------------------------
\* Outcomes
\* ------------------------------------------------------------------------
\* exc: class of the exception that leaves the call ("none" on success);
\* line: line of sanity_checks.py that raised it; via: lines of the calls
\* it propagated through, outermost first; shown: the class name that the
\* message of a type error shows for {arg_value_type} ("" if it shows none);
\* eq_calls: the second arguments of the calls of equality_fn, in order;
\* cb_calls: the arguments of the calls of element_check_fn, in order;
\* cause: the class of the exception caught from element_check_fn whose
\* str() the message shows ("" if the message shows none);
\* text: the formatted message of the ValueError of sanitize_range (<<>> for
\* every other outcome).

Outcome(exc, line) ==
    [exc |-> exc, line |-> line, via |-> <<>>, shown |-> "", eq_calls |-> <<>>,
     cb_calls |-> <<>>, cause |-> "", text |-> <<>>]

Success == Outcome("none", 0)

\* the outcome of a call made at line `line` as the calling function sees it
Via(line, o) == IF o.exc = "none" THEN o ELSE [o EXCEPT !.via = <<line>> \o @]

\* raise exc(template.format(...)) with the format call at line fline and
\* the raise statement at line rline
RaiseFormatted(exc, rline, t, fline, npos, names) ==
    IF Format(t, npos, names) # "none"
    THEN Outcome(Format(t, npos, names), fline)
    ELSE Outcome(exc, rline)

\* ------------------------------------------------------------------------
\* sanitize_type
\* ------------------------------------------------------------------------

\* both default messages of sanitize_type use the same three named fields
TypeMsg == Template(<<"arg_name", "target_type", "arg_value_type">>)
TypeFormatArgs == {"arg_name", "target_type", "arg_value_type"}

\* MalformedTypeList with the bug of looking at the first member only
MalformedTypeListFirstOnly(target_type) ==
    /\ IsIterable(target_type)
    /\ Len(Iter(target_type)) > 0
    /\ ~IsType(Iter(target_type)[1])

\* target_type is an Iterable with a member that is not a type
MalformedTypeList(target_type) ==
    /\ IsIterable(target_type)
    /\ \E i \in DOMAIN Iter(target_type) : ~IsType(Iter(target_type)[i])

\* InstanceOfAny with the bug of demanding every listed type
InstanceOfAll(arg_value, target_type) ==
    \A i \in DOMAIN Iter(target_type) : isinstance(arg_value, Iter(target_type)[i])

\* the loop `for t in target_type: if isinstance(arg_value, t): return`
\* (it runs after the loop that looked for members that are not types)
InstanceOfAny(arg_value, target_type) ==
    LET types == AfterTraversal(target_type, Iter(target_type))
    IN  \E i \in DOMAIN types : isinstance(arg_value, types[i])

\* the TypeError of sanitize_type: its message shows the class of arg_value
\* where the template has the field {arg_value_type}
RaiseTypeError(rline, fline, arg_value, error_msg) ==
    LET template == IF error_msg.given THEN error_msg ELSE TypeMsg
        o == RaiseFormatted("TypeError", rline, template, fline, 0, TypeFormatArgs)
    IN  IF o.exc = "TypeError" /\ \E i \in DOMAIN template.fields :
                                     template.fields[i] = "arg_value_type"
        THEN [o EXCEPT !.shown = arg_value.ty]
        ELSE o

sanitize_type(arg_value, target_type, none_allowed, error_msg) ==
    IF MalformedTypeList(target_type) THEN Outcome("TypeError", 383)
    ELSE IF ~IsIterable(target_type) /\ ~IsType(target_type) THEN Outcome("TypeError", 390)
    ELSE IF arg_value = PyNone /\ none_allowed THEN Success
    ELSE IF IsType(target_type)
    THEN IF ~isinstance(arg_value, target_type)
         THEN RaiseTypeError(431, 424, arg_value, error_msg)
         ELSE Success
    ELSE IF InstanceOfAny(arg_value, target_type) THEN Success
    ELSE RaiseTypeError(455, 448, arg_value, error_msg)

\* ------------------------------------------------------------------------
\* sanitize_range
\* ------------------------------------------------------------------------

\* the first failure in a sequence of outcomes, Success if there is none
FirstFailure(os) ==
    IF \E i \in DOMAIN os : os[i].exc # "none"
    THEN os[CHOOSE i \in DOMAIN os :
                os[i].exc # "none" /\ \A j \in 1..(i - 1) : os[j].exc = "none"]
    ELSE Success

RangeMsgMax == Template(<<"arg_name", "max_sym", "maximum", "arg_value">>)
RangeMsgMin == Template(<<"arg_name", "min_sym", "minimum", "arg_value">>)
RangeMsgBoth(complement) ==
    TemplateOf(<<Field("arg_name"), Field("min_sym"), Field("minimum"),
                 Literal(IF complement THEN "or" ELSE "and"),
                 Field("max_sym"), Field("maximum"), Field("arg_value")>>)
RangeFormatArgs == {"arg_name", "arg_value", "minimum", "maximum", "min_sym", "max_sym"}

\* RangeArgChecks with the bug of refusing minimum = maximum
RangeArgChecksStrict(arg_value, minimum, maximum) ==
    LET types == FirstFailure(<<
            Via(275, sanitize_type(arg_value, PyType("Number"), FALSE, NoMsg)),
            Via(276, sanitize_type(minimum, PyType("Number"), TRUE, NoMsg)),
            Via(277, sanitize_type(maximum, PyType("Number"), TRUE, NoMsg)) >>)
    IN  IF types.exc # "none" THEN types
        ELSE IF minimum = PyNone /\ maximum = PyNone THEN Outcome("TypeError", 284)
        ELSE IF minimum # PyNone /\ maximum # PyNone /\ minimum.n >= maximum.n
        THEN Outcome("ValueError", 286)
        ELSE Success

\* the argument checks of sanitize_range, in the order of the code
RangeArgChecks(arg_value, minimum, maximum) ==
    LET types == FirstFailure(<<
            Via(275, sanitize_type(arg_value, PyType("Number"), FALSE, NoMsg)),
            Via(276, sanitize_type(minimum, PyType("Number"), TRUE, NoMsg)),
            Via(277, sanitize_type(maximum, PyType("Number"), TRUE, NoMsg)) >>)
    IN  IF types.exc # "none" THEN types
        ELSE IF minimum = PyNone /\ maximum = PyNone THEN Outcome("TypeError", 284)
        ELSE IF minimum # PyNone /\ maximum # PyNone /\ minimum.n > maximum.n
        THEN Outcome("ValueError", 286)
        ELSE Success

\* ComplementRewrite with the bug of keeping the inclusivity of the bound
ComplementRewriteKeep(minimum, maximum, min_inclusive, max_inclusive, complement) ==
    IF complement /\ minimum = PyNone
    THEN [minimum |-> maximum, maximum |-> PyNone, min_inclusive |-> max_inclusive,
          max_inclusive |-> max_inclusive, complement |-> FALSE]
    ELSE IF complement /\ maximum = PyNone
    THEN [minimum |-> PyNone, maximum |-> minimum, min_inclusive |-> min_inclusive,
          max_inclusive |-> min_inclusive, complement |-> FALSE]
    ELSE [minimum |-> minimum, maximum |-> maximum, min_inclusive |-> min_inclusive,
          max_inclusive |-> max_inclusive, complement |-> complement]

\* the exchange of the single bound of a complement check
ComplementRewrite(minimum, maximum, min_inclusive, max_inclusive, complement) ==
    IF complement /\ minimum = PyNone
    THEN [minimum |-> maximum, maximum |-> PyNone, min_inclusive |-> ~max_inclusive,
          max_inclusive |-> max_inclusive, complement |-> FALSE]
    ELSE IF complement /\ maximum = PyNone
    THEN [minimum |-> PyNone, maximum |-> minimum, min_inclusive |-> min_inclusive,
          max_inclusive |-> ~min_inclusive, complement |-> FALSE]
    ELSE [minimum |-> minimum, maximum |-> maximum, min_inclusive |-> min_inclusive,
          max_inclusive |-> max_inclusive, complement |-> complement]

\* MinSym with the bug of writing the symbol of the interval check for a
\* complement check too
MinSymOfInterval(min_inclusive, complement) ==
    IF min_inclusive THEN ">=" ELSE ">"

\* the comparison symbols written into the message
MinSym(min_inclusive, complement) ==
    IF complement THEN (IF min_inclusive THEN "<" ELSE "<=")
    ELSE (IF min_inclusive THEN ">=" ELSE ">")

MaxSym(max_inclusive, complement) ==
    IF complement THEN (IF max_inclusive THEN ">" ELSE ">=")
    ELSE (IF max_inclusive THEN "<=" ELSE "<")

\* the default message chosen for the bounds that are given
RangeDefaultMsg(minimum, maximum, complement) ==
    IF minimum = PyNone THEN RangeMsgMax
    ELSE IF maximum = PyNone THEN RangeMsgMin
    ELSE RangeMsgBoth(complement)

\* the keyword arguments of the format call of line 326
RangeFormatEnv(arg_value, minimum, maximum, min_inclusive, max_inclusive, complement) ==
    [arg_name |-> Text("arg_name"), arg_value |-> Shown(arg_value),
     minimum |-> Shown(minimum), maximum |-> Shown(maximum),
     min_sym |-> Text(MinSym(min_inclusive, complement)),
     max_sym |-> Text(MaxSym(max_inclusive, complement))]

\* OutOfRange with the bug of testing an inclusive maximum with >=
OutOfRangeOpenMax(arg_value, minimum, maximum, min_inclusive, max_inclusive, complement) ==
    LET below == /\ minimum # PyNone
                 /\ \/ (min_inclusive /\ arg_value.n < minimum.n)
                    \/ (~min_inclusive /\ arg_value.n <= minimum.n)
        above == maximum # PyNone /\ arg_value.n >= maximum.n
    IN  IF complement THEN ~(below \/ above) ELSE (below \/ above)

\* the value of out_of_range when it is tested by `if out_of_range`
OutOfRange(arg_value, minimum, maximum, min_inclusive, max_inclusive, complement) ==
    LET below == /\ minimum # PyNone
                 /\ \/ (min_inclusive /\ arg_value.n < minimum.n)
                    \/ (~min_inclusive /\ arg_value.n <= minimum.n)
        above == /\ maximum # PyNone
                 /\ \/ (max_inclusive /\ arg_value.n > maximum.n)
                    \/ (~max_inclusive /\ arg_value.n >= maximum.n)
    IN  IF complement THEN ~(below \/ above) ELSE (below \/ above)

sanitize_range(arg_value, minimum, maximum, min_inclusive, max_inclusive, complement, error_msg) ==
    LET checks == RangeArgChecks(arg_value, minimum, maximum)
        rw == ComplementRewrite(minimum, maximum, min_inclusive, max_inclusive, complement)
        template == IF error_msg.given THEN error_msg
                    ELSE RangeDefaultMsg(rw.minimum, rw.maximum, rw.complement)
    IN  IF checks.exc # "none" THEN checks
        ELSE IF Format(template, 0, RangeFormatArgs) # "none"
        THEN Outcome(Format(template, 0, RangeFormatArgs), 326)
        ELSE IF OutOfRange(arg_value, rw.minimum, rw.maximum, rw.min_inclusive,
                           rw.max_inclusive, rw.complement)
        THEN [Outcome("ValueError", 349) EXCEPT
                  !.text = Render(template,
                                  RangeFormatEnv(arg_value, rw.minimum, rw.maximum,
                                                 rw.min_inclusive, rw.max_inclusive,
                                                 rw.complement))]
        ELSE Success

\* ------------------------------------------------------------------------
\* sanitize_value
\* ------------------------------------------------------------------------

IsNumber(v) == "Number" \in Bases(v.ty)

\* operator.eq: numbers compare by value (True == 1), lists and strs
\* element by element, type objects by identity; a generator equals only
\* itself, and the generators of the model are distinct objects
RECURSIVE PyEq(_, _)
PyEq(a, b) ==
    IF IsNumber(a) /\ IsNumber(b) THEN a.n = b.n
    ELSE IF a.ty # b.ty \/ a.ty = "generator" THEN FALSE
    ELSE /\ a.nm = b.nm
         /\ a.n = b.n
         /\ Len(a.items) = Len(b.items)
         /\ \A i \in 1..Len(a.items) : PyEq(a.items[i], b.items[i])

\* the equality functions: operator.eq (the default) and eq_mod_2 of the
\* tests, `(x - y) % 2 == 0`, which raises a TypeError unless both
\* arguments are numbers
EqualityFns == {"eq", "eq_mod_2"}

\* equality_fn(a, b): the exception it raises and the value it returns
ApplyEq(equality_fn, a, b) ==
    IF equality_fn = "eq" THEN [exc |-> "none", val |-> PyEq(a, b)]
    ELSE IF IsNumber(a) /\ IsNumber(b)
    THEN [exc |-> "none", val |-> (a.n - b.n) % 2 = 0]
    ELSE [exc |-> "TypeError", val |-> FALSE]

\* both default messages of sanitize_value have one positional field
ValueMsg == Template(<<"arg_name", "", "target_value", "arg_value">>)
ValueFormatArgs == {"arg_name", "arg_value", "target_value"}

\* Expanded with the bug of expanding lists only, not strs
ExpandedListsOnly(target_value, expand_target) ==
    expand_target /\ target_value.ty = "list"

\* Expanded with the bug of ignoring expand_target
ExpandedAlways(target_value, expand_target) == IsIterable(target_value)

\* target_value is taken as a collection of targets
Expanded(target_value, expand_target) == expand_target /\ IsIterable(target_value)

\* CASE 1: one comparison with target_value itself
CompareWhole(arg_value, target_value, complement, error_msg, equality_fn) ==
    LET r == ApplyEq(equality_fn, arg_value, target_value)
        o == IF r.exc # "none" THEN Outcome(r.exc, 0)
             ELSE IF (complement /\ r.val) \/ (~complement /\ ~r.val)
             THEN RaiseFormatted("ValueError", 518,
                                 IF error_msg.given THEN error_msg ELSE ValueMsg,
                                 510, 1, ValueFormatArgs)
             ELSE Success
    IN  [o EXCEPT !.eq_calls = <<target_value>>]

\* CompareEach with the bug of deciding only after the loop has compared
\* every target
RECURSIVE CompareEachLate(_, _, _, _, _, _)
CompareEachLate(arg_value, ts, i, complement, equality_fn, calls) ==
    IF i > Len(ts)
    THEN LET matched == \E j \in 1..Len(ts) : ApplyEq(equality_fn, arg_value, ts[j]).val
         IN  [(IF matched = complement
               THEN Outcome("ValueError", IF complement THEN 537 ELSE 543)
               ELSE Success) EXCEPT !.eq_calls = calls]
    ELSE IF ApplyEq(equality_fn, arg_value, ts[i]).exc # "none"
    THEN [Outcome(ApplyEq(equality_fn, arg_value, ts[i]).exc, 0)
              EXCEPT !.eq_calls = Append(calls, ts[i])]
    ELSE CompareEachLate(arg_value, ts, i + 1, complement, equality_fn, Append(calls, ts[i]))

\* CASE 2: the loop over the targets ts from position i on; calls are the
\* targets compared so far
RECURSIVE CompareEach(_, _, _, _, _, _)
CompareEach(arg_value, ts, i, complement, equality_fn, calls) ==
    IF i > Len(ts)
    THEN [(IF complement THEN Success ELSE Outcome("ValueError", 543))
              EXCEPT !.eq_calls = calls]
    ELSE LET r == ApplyEq(equality_fn, arg_value, ts[i])
             now == Append(calls, ts[i])
         IN  IF r.exc # "none" THEN [Outcome(r.exc, 0) EXCEPT !.eq_calls = now]
             ELSE IF r.val
             THEN [(IF complement THEN Outcome("ValueError", 537) ELSE Success)
                       EXCEPT !.eq_calls = now]
             ELSE CompareEach(arg_value, ts, i + 1, complement, equality_fn, now)

\* sanitize_value with the bug of comparing None although none_allowed is set
sanitize_value_none_compared(arg_value, target_value, complement, expand_target, none_allowed, error_msg, equality_fn) ==
    LET template == IF error_msg.given THEN error_msg ELSE ValueMsg
        ts == AfterTraversal(target_value, Iter(target_value))
    IN  IF ~Expanded(target_value, expand_target)
        THEN CompareWhole(arg_value, target_value, complement, error_msg, equality_fn)
        ELSE IF Format(template, 1, ValueFormatArgs) # "none"
        THEN Outcome(Format(template, 1, ValueFormatArgs), 526)
        ELSE CompareEach(arg_value, ts, 1, complement, equality_fn, <<>>)

sanitize_value(arg_value, target_value, complement, expand_target, none_allowed, error_msg, equality_fn) ==
    LET template == IF error_msg.given THEN error_msg ELSE ValueMsg
        \* building the message traverses target_value before the loop does
        ts == AfterTraversal(target_value, Iter(target_value))
    IN  IF none_allowed /\ arg_value = PyNone THEN Success
        ELSE IF ~Expanded(target_value, expand_target)
        THEN CompareWhole(arg_value, target_value, complement, error_msg, equality_fn)
        ELSE IF Format(template, 1, ValueFormatArgs) # "none"
        THEN Outcome(Format(template, 1, ValueFormatArgs), 526)
        ELSE CompareEach(arg_value, ts, 1, complement, equality_fn, <<>>)

\* ------------------------------------------------------------------------
\* sanitize_iterable
\* ------------------------------------------------------------------------

\* element_check_fn: None, an object that is not callable, or the check
\* `lambda x: eq_mod_2_check(x, y)` of the tests, which raises a ValueError
\* when x and y differ modulo 2 and a TypeError when x is not a number
NoFn == [name |-> "None", y |-> 0]
NotCallable == [name |-> "not callable", y |-> 0]
EqMod2Check(y) == [name |-> "eq_mod_2_check", y |-> y]

\* both default messages of sanitize_value_fn have the same named fields and
\* no positional one
ValueFnMsg == Template(<<"arg_name", "target_value", "arg_value">>)

\* sanitize_value_fn of iterable_check_functions.py: the function it returns
\* is `lambda x: sanitize_value(arg_name, x, ...)` with the arguments of the
\* factory and, for error_msg None, the default message of the factory
sanitize_value_fn(target_value, complement, expand_target, none_allowed, error_msg, equality_fn) ==
    [name |-> "sanitize_value_fn", y |-> 0, target_value |-> target_value,
     complement |-> complement, expand_target |-> expand_target,
     none_allowed |-> none_allowed,
     error_msg |-> IF error_msg.given THEN error_msg ELSE ValueFnMsg,
     equality_fn |-> equality_fn]

\* the function made by sanitize_value_fn, called on x: the exception it
\* raises
ValueFnCall(fn, x) ==
    sanitize_value(x, fn.target_value, fn.complement, fn.expand_target,
                   fn.none_allowed, fn.error_msg, fn.equality_fn).exc

\* eq_mod_2_check(x, y) of the tests: the exception it raises
eq_mod_2_check(x, y) ==
    IF ~IsNumber(x) THEN "TypeError"
    ELSE IF (x.n - y) % 2 # 0 THEN "ValueError"
    ELSE "none"

\* element_check_fn(e): the exception it raises
ApplyCheckFn(element_check_fn, e) ==
    IF element_check_fn.name = "sanitize_value_fn"
    THEN ValueFnCall(element_check_fn, e)
    ELSE eq_mod_2_check(e, element_check_fn.y)

ElementsTypeMsg == Template(<<"arg_name", "arg_value_type">>)
NoneErr == Template(<<"arg_name">>)
TypeErrMsgAny == Template(<<"arg_name", "arg_value_type">>)
TypeErrMsgSingle == Template(<<"arg_name", "target_type", "arg_value_type">>)
LenErrMsg == Template(<<"arg_name", "target_value", "arg_value">>)
RangeErrMsg == Template(<<"arg_name", "arg_value">>)
CheckFnErrMsg == Template(<<"arg_name", "">>)

\* the check of elements_type
ElementsTypeCheck(elements_type) ==
    IF elements_type = PyNone THEN Success
    ELSE IF IsIterable(elements_type)
    THEN FirstFailure([i \in DOMAIN Iter(elements_type) |->
             Via(115, sanitize_type(Iter(elements_type)[i], PyType("type"), FALSE,
                                    ElementsTypeMsg))])
    ELSE IF ~IsType(elements_type) THEN Outcome("TypeError", 125)
    ELSE Success

\* the check of one of target_length, min_length, max_length; tline is the
\* line of its sanitize_type call, the sanitize_range call is two lines on
LengthArgCheck(length, tline) ==
    FirstFailure(<<
        Via(tline, sanitize_type(length, PyType("int"), TRUE, NoMsg)),
        IF length # PyNone
        THEN Via(tline + 2, sanitize_range(length, PyInt(0), PyNone, TRUE, TRUE, FALSE, NoMsg))
        ELSE Success >>)

\* ArgValueCheck with the bug of accepting None whatever none_allowed is
ArgValueCheckNoneAccepted(arg_value, none_allowed) ==
    Via(110, sanitize_type(arg_value, PyType("Iterable"), TRUE, NoMsg))

\* the check of arg_value: an Iterable, or None when none_allowed is set
ArgValueCheck(arg_value, none_allowed) ==
    Via(110, sanitize_type(arg_value, PyType("Iterable"), none_allowed, NoMsg))

\* IterableArgCheckList with the bug of not refusing target_length together
\* with min_length or max_length
IterableArgCheckListNoConflict(arg_value, elements_type, target_length, min_length, max_length, none_allowed, element_check_fn) ==
    << ArgValueCheck(arg_value, none_allowed),
       ElementsTypeCheck(elements_type),
       LengthArgCheck(target_length, 131),
       LengthArgCheck(min_length, 134),
       LengthArgCheck(max_length, 137),
       IF element_check_fn = NotCallable THEN Outcome("TypeError", 144) ELSE Success,
       IF /\ elements_type = PyNone
          /\ target_length = PyNone
          /\ min_length = PyNone
          /\ max_length = PyNone
          /\ element_check_fn = NoFn
       THEN Outcome("TypeError", 153) ELSE Success,
       IF /\ arg_value # PyNone
          /\ (target_length # PyNone \/ min_length # PyNone \/ max_length # PyNone)
          /\ ~IsSized(arg_value)
       THEN Outcome("TypeError", 163) ELSE Success >>

\* the checks of the section "Sanitize Args" of sanitize_iterable, in the
\* order of the code
IterableArgCheckList(arg_value, elements_type, target_length, min_length, max_length, none_allowed, element_check_fn) ==
    << ArgValueCheck(arg_value, none_allowed),
       ElementsTypeCheck(elements_type),
       LengthArgCheck(target_length, 131),
       LengthArgCheck(min_length, 134),
       LengthArgCheck(max_length, 137),
       IF element_check_fn = NotCallable THEN Outcome("TypeError", 144) ELSE Success,
       IF /\ elements_type = PyNone
          /\ target_length = PyNone
          /\ min_length = PyNone
          /\ max_length = PyNone
          /\ element_check_fn = NoFn
       THEN Outcome("TypeError", 153) ELSE Success,
       IF /\ arg_value # PyNone
          /\ (target_length # PyNone \/ min_length # PyNone \/ max_length # PyNone)
          /\ ~IsSized(arg_value)
       THEN Outcome("TypeError", 163) ELSE Success,
       IF target_length # PyNone /\ (min_length # PyNone \/ max_length # PyNone)
       THEN Outcome("ValueError", 171) ELSE Success >>

\* IterableArgChecks with the bug of returning for an acceptable None before
\* the constraints are looked at
IterableArgChecksNoneFirst(arg_value, elements_type, target_length, min_length, max_length, none_allowed, element_check_fn) ==
    IF arg_value = PyNone /\ none_allowed THEN Success
    ELSE FirstFailure(IterableArgCheckList(arg_value, elements_type, target_length,
                                           min_length, max_length, none_allowed,
                                           element_check_fn))

\* the section "Sanitize Args" of sanitize_iterable
IterableArgChecks(arg_value, elements_type, target_length, min_length, max_length, none_allowed, element_check_fn) ==
    FirstFailure(IterableArgCheckList(arg_value, elements_type, target_length,
                                      min_length, max_length, none_allowed,
                                      element_check_fn))

\* "check if arg_value contains illegal None-elements": es are the elements
\* the traversal yields
NoneElementsCheck(es, none_elements_allowed, error_msg) ==
    IF ~none_elements_allowed /\ \E i \in DOMAIN es : es[i] = PyNone
    THEN RaiseFormatted("TypeError", 212,
                        IF error_msg.given THEN error_msg ELSE NoneErr,
                        212, 0, {"arg_name"})
    ELSE Success

\* "run through all elements of arg_value and check their types"
ElementTypesCheck(es, elements_type, none_elements_allowed, error_msg) ==
    LET type_err_msg == IF error_msg.given THEN error_msg
                        ELSE IF IsIterable(elements_type) THEN TypeErrMsgAny
                        ELSE TypeErrMsgSingle
    IN  IF elements_type = PyNone THEN Success
        ELSE FirstFailure([i \in DOMAIN es |->
                 Via(217, sanitize_type(es[i], elements_type, none_elements_allowed,
                                        type_err_msg))])

\* LengthCheck with the bug of an exclusive max_length
LengthCheckOpenMax(length, target_length, min_length, max_length, error_msg) ==
    FirstFailure(<<
        IF target_length # PyNone
        THEN Via(221, sanitize_value(PyInt(length), target_length, FALSE, TRUE, TRUE,
                                     IF error_msg.given THEN error_msg ELSE LenErrMsg,
                                     "eq"))
        ELSE Success,
        IF min_length # PyNone \/ max_length # PyNone
        THEN Via(223, sanitize_range(PyInt(length), min_length, max_length, TRUE, FALSE,
                                     FALSE,
                                     IF error_msg.given THEN error_msg ELSE RangeErrMsg))
        ELSE Success >>)

\* "check length of arg_value": length is len(arg_value)
LengthCheck(length, target_length, min_length, max_length, error_msg) ==
    FirstFailure(<<
        IF target_length # PyNone
        THEN Via(221, sanitize_value(PyInt(length), target_length, FALSE, TRUE, TRUE,
                                     IF error_msg.given THEN error_msg ELSE LenErrMsg,
                                     "eq"))
        ELSE Success,
        IF min_length # PyNone \/ max_length # PyNone
        THEN Via(223, sanitize_range(PyInt(length), min_length, max_length, TRUE, TRUE,
                                     FALSE,
                                     IF error_msg.given THEN error_msg ELSE RangeErrMsg))
        ELSE Success >>)

\* Reraise with the bug of raising an exception of the class that was caught
ReraiseSameKind(ex, error_msg, calls) ==
    [Outcome(ex, 242) EXCEPT !.cb_calls = calls, !.cause = ex]

\* `except Exception as ex`: the ValueError raised for the exception of
\* class ex caught from element_check_fn; its message shows str(ex) where
\* the template has a positional field
Reraise(ex, error_msg, calls) ==
    LET template == IF error_msg.given THEN error_msg ELSE CheckFnErrMsg
        o == RaiseFormatted("ValueError", 242, template, 242, 1, {"arg_name"})
    IN  [o EXCEPT !.cb_calls = calls,
                  !.cause = IF o.exc = "ValueError" /\ \E i \in DOMAIN template.fields :
                                                           template.fields[i] = ""
                            THEN ex ELSE ""]

\* "run custom sanity checks": the loop over the elements es from position
\* i on; calls are the elements passed to element_check_fn so far
RECURSIVE CustomCheck(_, _, _, _, _)
CustomCheck(es, i, element_check_fn, error_msg, calls) ==
    IF i > Len(es) THEN [Success EXCEPT !.cb_calls = calls]
    ELSE IF es[i] = PyNone
    THEN CustomCheck(es, i + 1, element_check_fn, error_msg, calls)
    ELSE IF ApplyCheckFn(element_check_fn, es[i]) # "none"
    THEN Reraise(ApplyCheckFn(element_check_fn, es[i]), error_msg, Append(calls, es[i]))
    ELSE CustomCheck(es, i + 1, element_check_fn, error_msg, Append(calls, es[i]))

sanitize_iterable(arg_value, elements_type, target_length, min_length, max_length, none_allowed, none_elements_allowed, element_check_fn, error_msg) ==
    LET checks == IterableArgChecks(arg_value, elements_type, target_length, min_length,
                                    max_length, none_allowed, element_check_fn)
        \* the elements each of the three traversals of arg_value yields
        first == Iter(arg_value)
        second == IF none_elements_allowed THEN first ELSE AfterTraversal(arg_value, first)
        third == IF elements_type = PyNone THEN second ELSE AfterTraversal(arg_value, second)
        phases == FirstFailure(<<
            NoneElementsCheck(first, none_elements_allowed, error_msg),
            ElementTypesCheck(second, elements_type, none_elements_allowed, error_msg),
            LengthCheck(Len(arg_value.items), target_length, min_length, max_length,
                        error_msg) >>)
    IN  IF checks.exc # "none" THEN checks
        ELSE IF arg_value = PyNone THEN Success
        ELSE IF phases.exc # "none" THEN phases
        ELSE IF element_check_fn = NoFn THEN Success
        ELSE CustomCheck(third, 1, element_check_fn, error_msg, <<>>)

\* ------------------------------------------------------------------------
\* sanitize_range_fn (iterable_check_functions.py)
\* ------------------------------------------------------------------------
\* An outcome of sanitize_range_fn itself has in `line`, or in the first
\* entry of `via`, a line of iterable_check_functions.py; the call of the
\* function it returns goes through line 109 of that file.

\* RangeFnArgChecks with the bug of refusing equal bounds
RangeFnArgChecksStrict(minimum, maximum) ==
    LET types == FirstFailure(<<
            Via(67, sanitize_type(minimum, PyType("Number"), TRUE, NoMsg)),
            Via(68, sanitize_type(maximum, PyType("Number"), TRUE, NoMsg)) >>)
    IN  IF types.exc # "none" THEN types
        ELSE IF minimum = PyNone /\ maximum = PyNone THEN Outcome("TypeError", 75)
        ELSE IF minimum # PyNone /\ maximum # PyNone /\ minimum.n >= maximum.n
        THEN Outcome("ValueError", 77)
        ELSE Success

\* the argument checks of the factory, in the order of the code
RangeFnArgChecks(minimum, maximum) ==
    LET types == FirstFailure(<<
            Via(67, sanitize_type(minimum, PyType("Number"), TRUE, NoMsg)),
            Via(68, sanitize_type(maximum, PyType("Number"), TRUE, NoMsg)) >>)
    IN  IF types.exc # "none" THEN types
        ELSE IF minimum = PyNone /\ maximum = PyNone THEN Outcome("TypeError", 75)
        ELSE IF minimum # PyNone /\ maximum # PyNone /\ minimum.n > maximum.n
        THEN Outcome("ValueError", 77)
        ELSE Success

\* the comparison symbols the factory chooses from its arguments as given
RangeFnMinSym(min_inclusive, complement) ==
    IF complement THEN (IF min_inclusive THEN "<" ELSE "<=")
    ELSE (IF min_inclusive THEN ">=" ELSE ">")

RangeFnMaxSym(max_inclusive, complement) ==
    IF complement THEN (IF max_inclusive THEN ">" ELSE ">=")
    ELSE (IF max_inclusive THEN "<=" ELSE "<")

\* the default message of the factory: the symbols are concatenated into the
\* template as text, the bounds stay replacement fields
RangeFnMsg(minimum, maximum, min_inclusive, max_inclusive, complement) ==
    IF minimum = PyNone
    THEN TemplateOf(<<Field("arg_name"), Literal(RangeFnMaxSym(max_inclusive, complement)),
                      Field("maximum"), Field("arg_value")>>)
    ELSE IF maximum = PyNone
    THEN TemplateOf(<<Field("arg_name"), Literal(RangeFnMinSym(min_inclusive, complement)),
                      Field("minimum"), Field("arg_value")>>)
    ELSE TemplateOf(<<Field("arg_name"), Literal(RangeFnMinSym(min_inclusive, complement)),
                      Field("minimum"), Literal(IF complement THEN "or" ELSE "and"),
                      Literal(RangeFnMaxSym(max_inclusive, complement)),
                      Field("maximum"), Field("arg_value")>>)

\* sanitize_range_fn: `raised` is the exception of the factory, `fn` the
\* function it returns, `lambda x: sanitize_range(arg_name, x, ...)` with
\* the arguments of the factory and, for error_msg None, its default message
sanitize_range_fn(minimum, maximum, min_inclusive, max_inclusive, complement, error_msg) ==
    LET checks == RangeFnArgChecks(minimum, maximum)
    IN  IF checks.exc # "none" THEN [raised |-> checks, fn |-> NoFn]
        ELSE [raised |-> Success,
              fn |-> [name |-> "sanitize_range_fn", y |-> 0,
                      minimum |-> minimum, maximum |-> maximum,
                      min_inclusive |-> min_inclusive, max_inclusive |-> max_inclusive,
                      complement |-> complement,
                      error_msg |-> IF error_msg.given THEN error_msg
                                    ELSE RangeFnMsg(minimum, maximum, min_inclusive,
                                                    max_inclusive, complement)]]

\* the function made by sanitize_range_fn, called on x
RangeFnCall(f, x) ==
    Via(109, sanitize_range(x, f.minimum, f.maximum, f.min_inclusive, f.max_inclusive,
                            f.complement, f.error_msg))

\* ------------------------------------------------------------------------
\* The calls
\* ------------------------------------------------------------------------

\* all sequences of length 0 .. n over the set S
SeqsUpTo(S, n) == UNION {[1..k -> S] : k \in 0..n}

\* error_msg: the default, a template that names only the argument, a
\* template that also shows the value, and a template that shows the class
\* of the value
ErrorMsgs ==
    {NoMsg, Template(<<"arg_name">>), Template(<<"arg_name", "arg_value">>),
     Template(<<"arg_name", "arg_value_type">>)}

\* --- sanitize_type
TypeNames == {"int", "bool", "str", "object", "NoneType"}
TypeArgValues ==
    {PyNone, PyInt(1), PyBool(TRUE), PyStr(<<1>>), PyList(<<PyInt(1)>>), PyType("int")}
TargetTypes ==
    {PyType(t) : t \in TypeNames}
        \cup {PyList(ts) : ts \in SeqsUpTo({PyType(t) : t \in TypeNames}, MaxLen)}
        \cup {PyInt(0), PyStr(<<1>>), PyList(<<PyType("object"), PyInt(0)>>),
              PyGenerator(<<PyType("object")>>)}
TypeArgs ==
    [arg_value : TypeArgValues, target_type : TargetTypes, none_allowed : BOOLEAN,
     error_msg : ErrorMsgs]

\* --- sanitize_range
Bounds == {PyNone} \cup {PyInt(k) : k \in 0..MaxNum}
RangeArgValues == {PyInt(k) : k \in (-1)..(MaxNum + 1)} \cup {PyStr(<<1>>)}
RangeArgs ==
    [arg_value : RangeArgValues, minimum : Bounds, maximum : Bounds,
     min_inclusive : BOOLEAN, max_inclusive : BOOLEAN, complement : BOOLEAN,
     error_msg : ErrorMsgs]

\* --- sanitize_value
Scalars == {PyNone, PyInt(0), PyInt(1), PyInt(2)}
ValueUniverse ==
    Scalars
        \cup {PyList(es) : es \in SeqsUpTo({PyNone, PyInt(0), PyInt(1)}, MaxLen)}
        \cup {PyStr(cs) : cs \in SeqsUpTo({1}, MaxLen)}
        \cup {PyGenerator(<<PyInt(0), PyInt(1)>>)}
ValueArgs ==
    [arg_value : ValueUniverse, target_value : ValueUniverse, complement : BOOLEAN,
     expand_target : BOOLEAN, none_allowed : BOOLEAN, error_msg : ErrorMsgs,
     equality_fn : EqualityFns]

\* --- sanitize_iterable
Elements == {PyNone, PyInt(1), PyStr(<<1>>)}
Collections ==
    {PyNone, PyInt(0)}
        \cup {PyList(es) : es \in SeqsUpTo(Elements, MaxLen)}
        \cup {PyGenerator(es) : es \in SeqsUpTo(Elements, MaxLen)}
\* (bool is the type that neither the int nor the str among the elements
\* is an instance of)
ElementsTypes ==
    {PyNone, PyType("int"), PyType("bool"), PyList(<<PyType("int"), PyType("str")>>),
     PyInt(0)}
Lengths == {PyNone} \cup {PyInt(k) : k \in 0..MaxLenArg}
CheckFns == {NoFn, NotCallable, EqMod2Check(0), EqMod2Check(1)}
IterableArgs ==
    [arg_value : Collections, elements_type : ElementsTypes, target_length : Lengths,
     min_length : Lengths, max_length : Lengths, none_allowed : BOOLEAN,
     none_elements_allowed : BOOLEAN, element_check_fn : CheckFns,
     error_msg : {NoMsg, Template(<<"arg_name", "arg_value">>)}]

\* --- sanitize_iterable of a one-element list with a check function made by
\* sanitize_value_fn (the targets are values that can be traversed
\* repeatedly, so that the function made behaves the same on every call)
ValueFnElements == Scalars \cup {PyList(<<PyInt(0)>>), PyStr(<<1>>)}
ValueFnTargets == {v \in ValueUniverse : v.ty # "generator"}
ValueFns ==
    {sanitize_value_fn(t, c, e, n, NoMsg, f) :
         t \in ValueFnTargets, c \in BOOLEAN, e \in BOOLEAN, n \in BOOLEAN,
         f \in EqualityFns}
ValueFnIterableArgs ==
    [arg_value : {PyList(<<x>>) : x \in ValueFnElements}, elements_type : {PyNone},
     target_length : {PyNone}, min_length : {PyNone}, max_length : {PyNone},
     none_allowed : {FALSE}, none_elements_allowed : BOOLEAN,
     element_check_fn : ValueFns, error_msg : {NoMsg}]

\* op: the function that is called; args: the arguments of the call;
\* pc: "call" before the function has run, "done" after, and for
\* sanitize_range_fn "made" when the factory has returned a function that
\* has not been called yet; result: the outcome of the call once
\* pc = "done"; check_fn: the function sanitize_range_fn returned (NoFn if none)
VARIABLES op, args, pc, result, check_fn

vars == <<op, args, pc, result, check_fn>>

Init ==
    /\ pc = "call"
    /\ result = Success
    /\ check_fn = NoFn
    /\ \/ op = "sanitize_type" /\ args \in TypeArgs
       \/ op = "sanitize_range" /\ args \in RangeArgs
       \/ op = "sanitize_value" /\ args \in ValueArgs
       \/ op = "sanitize_iterable" /\ args \in IterableArgs
       \/ op = "sanitize_iterable" /\ args \in ValueFnIterableArgs
       \/ op = "sanitize_range_fn" /\ args \in RangeArgs

call_sanitize_type ==
    /\ pc = "call" /\ op = "sanitize_type"
    /\ result' = sanitize_type(args.arg_value, args.target_type, args.none_allowed,
                               args.error_msg)
    /\ pc' = "done"
    /\ UNCHANGED <<op, args, check_fn>>

call_sanitize_range ==
    /\ pc = "call" /\ op = "sanitize_range"
    /\ result' = sanitize_range(args.arg_value, args.minimum, args.maximum,
                                args.min_inclusive, args.max_inclusive, args.complement,
                                args.error_msg)
    /\ pc' = "done"
    /\ UNCHANGED <<op, args, check_fn>>

call_sanitize_value ==
    /\ pc = "call" /\ op = "sanitize_value"
    /\ result' = sanitize_value(args.arg_value, args.target_value, args.complement,
                                args.expand_target, args.none_allowed, args.error_msg,
                                args.equality_fn)
    /\ pc' = "done"
    /\ UNCHANGED <<op, args, check_fn>>

call_sanitize_iterable ==
    /\ pc = "call" /\ op = "sanitize_iterable"
    /\ result' = sanitize_iterable(args.arg_value, args.elements_type, args.target_length,
                                   args.min_length, args.max_length, args.none_allowed,
                                   args.none_elements_allowed, args.element_check_fn,
                                   args.error_msg)
    /\ pc' = "done"
    /\ UNCHANGED <<op, args, check_fn>>

\* check_fn = sanitize_range_fn(arg_name, minimum=..., ...)
call_sanitize_range_fn ==
    /\ pc = "call" /\ op = "sanitize_range_fn"
    /\ LET made == sanitize_range_fn(args.minimum, args.maximum, args.min_inclusive,
                                     args.max_inclusive, args.complement, args.error_msg)
       IN  /\ result' = made.raised
           /\ check_fn' = made.fn
           /\ pc' = IF made.raised.exc = "none" THEN "made" ELSE "done"
    /\ UNCHANGED <<op, args>>

\* check_fn(arg_value)
call_check_fn ==
    /\ pc = "made" /\ op = "sanitize_range_fn"
    /\ result' = RangeFnCall(check_fn, args.arg_value)
    /\ pc' = "done"
    /\ UNCHANGED <<op, args, check_fn>>

Next ==
    \/ call_sanitize_type
    \/ call_sanitize_range
    \/ call_sanitize_value
    \/ call_sanitize_iterable
    \/ call_sanitize_range_fn
    \/ call_check_fn

Spec == Init /\ [][Next]_vars

\* ========================================================================
\* Properties
\* ========================================================================

\* the call of f has returned or raised
Done(f) == pc = "done" /\ op = f

Accepted == result.exc = "none"

\* a single type or a list of types
WellFormedTarget(t) ==
    \/ IsType(t)
    \/ t.ty = "list" /\ \A i \in DOMAIN t.items : IsType(t.items[i])

\* the types a well-formed target allows
AllowedTypes(t) == IF IsType(t) THEN {t} ELSE {t.items[i] : i \in DOMAIN t.items}

\* the failure is the TypeError that sanitize_type raises for a value of a
\* wrong type
TypeMismatch(o) == o.exc = "TypeError" /\ o.line \in {431, 455}

\* ------------------------------------------------------------------------
\* C1: sanitize_type with a well-formed target (a type or a list of types)
\* and the default message succeeds iff the value is None and none_allowed
\* is set, or the value is an instance of the target type or of at least one
\* of the listed types; otherwise it raises the TypeError of a type
\* mismatch.
C1_TypeCheck ==
    (Done("sanitize_type") /\ WellFormedTarget(args.target_type) /\ args.error_msg = NoMsg)
        => LET admissible ==
                   \/ args.arg_value = PyNone /\ args.none_allowed
                   \/ \E t \in AllowedTypes(args.target_type) :
                          t.nm \in Bases(args.arg_value.ty)
           IN  /\ Accepted <=> admissible
               /\ ~admissible => TypeMismatch(result) /\ result.via = <<>>

\* a value is accepted because it is an instance of the second of two listed
\* types and of the second only
C1_Witness ==
    /\ Done("sanitize_type") /\ args.error_msg = NoMsg
    /\ args.target_type.ty = "list" /\ Len(args.target_type.items) = 2
    /\ WellFormedTarget(args.target_type)
    /\ args.arg_value # PyNone
    /\ args.target_type.items[1].nm \notin Bases(args.arg_value.ty)
    /\ args.target_type.items[2].nm \in Bases(args.arg_value.ty)
    /\ Accepted

\* ------------------------------------------------------------------------
\* the value lies in the interval from lo to hi, each end closed or open
InInterval(v, lo, hi, lo_closed, hi_closed) ==
    /\ IF lo_closed THEN v >= lo ELSE v > lo
    /\ IF hi_closed THEN v <= hi ELSE v < hi

\* the failure is the ValueError raised for a value out of range
RangeViolation(o) == o.exc = "ValueError" /\ o.line = 349

\* a range check of a number with the default message
RangeCall == Done("sanitize_range") /\ IsNumber(args.arg_value) /\ args.error_msg = NoMsg

\* C2: sanitize_range with both bounds given and minimum <= maximum: without
\* complement the value is accepted iff it lies in the interval from minimum
\* to maximum, each end closed or open as its inclusivity flag says; with
\* complement it is accepted iff it lies outside that interval; every
\* rejection is the ValueError of a range violation.
C2_RangeTwoSided ==
    (/\ RangeCall
     /\ args.minimum # PyNone /\ args.maximum # PyNone
     /\ args.minimum.n <= args.maximum.n)
        => LET inside == InInterval(args.arg_value.n, args.minimum.n, args.maximum.n,
                                    args.min_inclusive, args.max_inclusive)
           IN  /\ Accepted <=> (IF args.complement THEN ~inside ELSE inside)
               /\ ~Accepted => RangeViolation(result)

\* a complement check rejects the value that equals an inclusive maximum
C2_Witness ==
    /\ RangeCall
    /\ args.minimum # PyNone /\ args.maximum # PyNone
    /\ args.minimum.n < args.maximum.n
    /\ args.complement /\ args.max_inclusive
    /\ args.arg_value.n = args.maximum.n
    /\ RangeViolation(result)

\* ------------------------------------------------------------------------
\* the one-sided in-range test: the missing bound is infinite
InOneSided(v, minimum, maximum, min_inclusive, max_inclusive) ==
    IF maximum = PyNone
    THEN (IF min_inclusive THEN v >= minimum.n ELSE v > minimum.n)
    ELSE (IF max_inclusive THEN v <= maximum.n ELSE v < maximum.n)

\* exactly one of the bounds is given
OneBound == (args.minimum = PyNone) # (args.maximum = PyNone)

\* C3: sanitize_range with exactly one bound and complement set accepts a
\* value iff the one-sided in-range test of that bound (with its inclusivity
\* flag, the missing bound infinite) fails, i.e. the exchange of the bound
\* decides as the negated one-sided test does.
C3_OneSidedComplement ==
    (RangeCall /\ OneBound /\ args.complement)
        => /\ Accepted <=> ~InOneSided(args.arg_value.n, args.minimum, args.maximum,
                                      args.min_inclusive, args.max_inclusive)
           /\ ~Accepted => RangeViolation(result)

\* the complement of a range with an exclusive lone maximum accepts the
\* maximum itself
C3_Witness ==
    /\ RangeCall /\ OneBound /\ args.complement
    /\ args.minimum = PyNone /\ ~args.max_inclusive
    /\ args.arg_value.n = args.maximum.n
    /\ Accepted

\* ------------------------------------------------------------------------
\* C4: sanitize_range of a number raises the TypeError of line 284 when
\* neither bound is given and the ValueError of line 286 when both are given
\* with minimum > maximum, whatever the value, the inclusivity flags, the
\* complement flag and the message are; with minimum = maximum it raises
\* neither.
C4_RangeConfiguration ==
    (Done("sanitize_range") /\ IsNumber(args.arg_value))
        => /\ (args.minimum = PyNone /\ args.maximum = PyNone)
                  => (result.exc = "TypeError" /\ result.line = 284)
           /\ (/\ args.minimum # PyNone /\ args.maximum # PyNone
               /\ args.minimum.n > args.maximum.n)
                  => (result.exc = "ValueError" /\ result.line = 286)
           /\ (/\ args.minimum # PyNone /\ args.maximum # PyNone
               /\ args.minimum.n = args.maximum.n)
                  => result.line \notin {284, 286}

\* minimum = maximum is accepted as a range and the value that equals both
\* passes
C4_Witness ==
    /\ Done("sanitize_range") /\ IsNumber(args.arg_value)
    /\ args.minimum # PyNone /\ args.maximum = args.minimum
    /\ args.arg_value = args.minimum
    /\ args.min_inclusive /\ args.max_inclusive /\ ~args.complement
    /\ Accepted

\* ------------------------------------------------------------------------
\* a value check that compares: the value is not an acceptable None and the
\* message is the default one
ValueCall ==
    /\ Done("sanitize_value") /\ args.error_msg = NoMsg
    /\ ~(args.none_allowed /\ args.arg_value = PyNone)

\* the target is a sequence: a list or a str
SequenceTarget == args.target_value.ty \in {"list", "str"}

\* the elements of the target sequence
TargetElements == Iter(args.target_value)

\* the equality function returns a value on the pair (v, t)
Comparable(v, t) == ApplyEq(args.equality_fn, v, t).exc = "none"

\* the equality function returns true on the pair (v, t)
Holds(v, t) == ApplyEq(args.equality_fn, v, t).val

\* s is an initial piece of t
IsPrefix(s, t) == Len(s) <= Len(t) /\ \A i \in 1..Len(s) : s[i] = t[i]

\* C5: sanitize_value with expand_target set and a sequence as target, for
\* a value that is not an acceptable None and an equality function that
\* returns a value on every element: without complement the value is
\* accepted iff the equality function holds between it and at least one
\* element of the sequence, with complement iff it holds for no element;
\* the equality function is called on elements of the sequence only, taken
\* from its start, never on the sequence itself.
C5_ExpandedTarget ==
    (/\ ValueCall /\ args.expand_target /\ SequenceTarget
     /\ \A i \in DOMAIN TargetElements : Comparable(args.arg_value, TargetElements[i]))
        => LET some == \E i \in DOMAIN TargetElements :
                           Holds(args.arg_value, TargetElements[i])
           IN  /\ Accepted <=> (IF args.complement THEN ~some ELSE some)
               /\ IsPrefix(result.eq_calls, TargetElements)

\* a value that equals the whole target sequence, and none of its elements,
\* is rejected
C5_Witness ==
    /\ ValueCall /\ args.expand_target /\ SequenceTarget /\ ~args.complement
    /\ args.equality_fn = "eq"
    /\ Len(TargetElements) = 2
    /\ PyEq(args.arg_value, args.target_value)
    /\ result.exc = "ValueError" /\ result.line = 543

\* ------------------------------------------------------------------------
\* the failure is the ValueError of the comparison with one target
ValueMismatch(o) == o.exc = "ValueError" /\ o.line = 518

\* C6: sanitize_value with expand_target unset, or with a target that is
\* not iterable, for a value that is not an acceptable None: the equality
\* function is called exactly once, on the value and the target itself;
\* when it returns, the value is accepted without complement iff it returned
\* true and with complement iff it returned false, and a rejection is the
\* ValueError of line 518.
C6_SingleComparison ==
    (ValueCall /\ (~args.expand_target \/ ~IsIterable(args.target_value)))
        => /\ result.eq_calls = <<args.target_value>>
           /\ Comparable(args.arg_value, args.target_value)
                  => /\ Accepted <=> (IF args.complement
                                      THEN ~Holds(args.arg_value, args.target_value)
                                      ELSE Holds(args.arg_value, args.target_value))
                     /\ ~Accepted => ValueMismatch(result)

\* with expand_target unset a value that equals an element of the target
\* list, not the list, is rejected
C6_Witness ==
    /\ ValueCall /\ ~args.expand_target /\ ~args.complement
    /\ args.equality_fn = "eq"
    /\ args.target_value.ty = "list"
    /\ \E i \in DOMAIN TargetElements : PyEq(args.arg_value, TargetElements[i])
    /\ ValueMismatch(result)

\* ------------------------------------------------------------------------
\* C7: sanitize_iterable called with none of elements_type, target_length,
\* min_length, max_length and element_check_fn raises the TypeError of line
\* 153 for every iterable arg_value and for arg_value None with none_allowed
\* set, and calls no element check.
C7_NoConstraint ==
    (/\ Done("sanitize_iterable")
     /\ (IsIterable(args.arg_value) \/ (args.arg_value = PyNone /\ args.none_allowed))
     /\ args.elements_type = PyNone /\ args.target_length = PyNone
     /\ args.min_length = PyNone /\ args.max_length = PyNone
     /\ args.element_check_fn = NoFn)
        => /\ result.exc = "TypeError" /\ result.line = 153 /\ result.via = <<>>
           /\ result.cb_calls = <<>>

\* the call without constraints fails for None with none_allowed set
C7_Witness ==
    /\ Done("sanitize_iterable")
    /\ args.arg_value = PyNone /\ args.none_allowed
    /\ args.elements_type = PyNone /\ args.target_length = PyNone
    /\ args.min_length = PyNone /\ args.max_length = PyNone
    /\ args.element_check_fn = NoFn
    /\ result.line = 153

\* ------------------------------------------------------------------------
\* a collection check with the default message
IterableCall == Done("sanitize_iterable") /\ args.error_msg = NoMsg

\* the section "Sanitize Args" raises nothing on the call, and min_length
\* does not exceed max_length
WellFormedDescriptor ==
    /\ IterableArgChecks(args.arg_value, args.elements_type, args.target_length,
                         args.min_length, args.max_length, args.none_allowed,
                         args.element_check_fn) = Success
    /\ (args.min_length # PyNone /\ args.max_length # PyNone)
           => args.min_length.n <= args.max_length.n

\* the elements the collection holds
Held == Iter(args.arg_value)

\* the i-th element is an instance of none of the allowed types and is not
\* an allowed None
WrongType(i) ==
    /\ ~(Held[i] = PyNone /\ args.none_elements_allowed)
    /\ \A t \in AllowedTypes(args.elements_type) : t.nm \notin Bases(Held[i].ty)

\* what the collection holds violates phase (a), (b), (c), (d)
NullViolated == ~args.none_elements_allowed /\ \E i \in DOMAIN Held : Held[i] = PyNone

TypeViolated == args.elements_type # PyNone /\ \E i \in DOMAIN Held : WrongType(i)

LengthViolated ==
    \/ args.target_length # PyNone /\ Len(Held) # args.target_length.n
    \/ args.min_length # PyNone /\ Len(Held) < args.min_length.n
    \/ args.max_length # PyNone /\ Len(Held) > args.max_length.n

CallbackViolated ==
    /\ args.element_check_fn # NoFn
    /\ \E i \in DOMAIN Held :
           Held[i] # PyNone /\ ApplyCheckFn(args.element_check_fn, Held[i]) # "none"

\* the failures of the four phases
NullElement(o) == o.exc = "TypeError" /\ o.line = 212 /\ o.via = <<>>

ElementTypeMismatch(o) == TypeMismatch(o) /\ o.via = <<217>>

LengthViolation(o) ==
    /\ o.exc = "ValueError"
    /\ \/ o.via = <<221>> /\ o.line = 518
       \/ o.via = <<223>> /\ o.line = 349

CustomElementViolation(o) == o.exc = "ValueError" /\ o.line = 242 /\ o.via = <<>>

\* the failure of the earliest phase that the held elements violate is the
\* one raised, and element_check_fn is not called when phase (a), (b) or (c)
\* fails
EarliestPhaseFails ==
    /\ NullViolated => NullElement(result)
    /\ (~NullViolated /\ TypeViolated) => ElementTypeMismatch(result)
    /\ (~NullViolated /\ ~TypeViolated /\ LengthViolated) => LengthViolation(result)
    /\ (NullElement(result) \/ ElementTypeMismatch(result) \/ LengthViolation(result))
           => result.cb_calls = <<>>

\* C8: for a collection that is not None and a well-formed constraint
\* descriptor, the failure raised is that of the earliest phase the
\* collection violates, in the order None element, element type, length,
\* element_check_fn; element_check_fn is not called when one of the first
\* three phases fails.
C8_PhaseOrder ==
    (IterableCall /\ args.arg_value # PyNone /\ WellFormedDescriptor)
        => EarliestPhaseFails

\* C8 on collections that can be traversed repeatedly (lists): the phase
\* order holds there
C8_PhaseOrderOfLists ==
    (/\ IterableCall /\ args.arg_value # PyNone /\ WellFormedDescriptor
     /\ args.arg_value.ty = "list")
        => EarliestPhaseFails

\* ------------------------------------------------------------------------
\* C9: for a sized collection that passes the None and the type phase:
\* with target_length the length phase fails iff the length differs from
\* target_length; with min_length and/or max_length (min_length <=
\* max_length) it fails iff the length is below min_length or above
\* max_length, a missing bound not constraining; the failure is the
\* ValueError raised by the length check, and a collection that passes the
\* phase is accepted or fails in element_check_fn.
C9_LengthPhase ==
    (/\ IterableCall /\ IsSized(args.arg_value) /\ WellFormedDescriptor
     /\ ~NullViolated /\ ~TypeViolated)
        => LET n == Len(Held)
               lo == args.min_length
               hi == args.max_length
           IN  /\ args.target_length # PyNone
                      => (LengthViolation(result) <=> n # args.target_length.n)
               /\ (args.target_length = PyNone /\ (lo # PyNone \/ hi # PyNone))
                      => (LengthViolation(result)
                              <=> ~(/\ lo # PyNone => lo.n <= n
                                    /\ hi # PyNone => n <= hi.n))
               /\ ~LengthViolation(result)
                      => (Accepted \/ CustomElementViolation(result))

\* a collection whose length equals max_length passes the length phase
C9_Witness ==
    /\ IterableCall /\ IsSized(args.arg_value) /\ WellFormedDescriptor
    /\ ~NullViolated /\ ~TypeViolated
    /\ args.max_length # PyNone /\ Len(Held) = args.max_length.n /\ Len(Held) > 0
    /\ args.elements_type # PyNone
    /\ Accepted

\* ------------------------------------------------------------------------
\* the first element of a wrong type
FirstWrongType == CHOOSE i \in DOMAIN Held : WrongType(i) /\ \A j \in 1..(i - 1) : ~WrongType(j)

\* the type phase fails iff an element has a wrong type, and the failure
\* shows the class of the first such element
TypePhaseFails ==
    /\ ElementTypeMismatch(result) <=> TypeViolated
    /\ TypeViolated => result.shown = Held[FirstWrongType].ty

\* C10: for a collection that is not None, holds no disallowed None and is
\* checked with elements_type (a type or a list of types), the check raises
\* the TypeError of a type mismatch iff at least one element that is not an
\* allowed None is an instance of none of the allowed types, and the failure
\* is the one of the first such element.
C10_ElementTypes ==
    (/\ IterableCall /\ args.arg_value # PyNone /\ WellFormedDescriptor
     /\ args.elements_type # PyNone /\ ~NullViolated)
        => TypePhaseFails

\* C10 on collections that can be traversed repeatedly (lists), and on any
\* collection when None elements are allowed: the type phase decides as
\* stated
C10_ElementTypesOfLists ==
    (/\ IterableCall /\ args.arg_value # PyNone /\ WellFormedDescriptor
     /\ args.elements_type # PyNone /\ ~NullViolated
     /\ (args.arg_value.ty = "list" \/ args.none_elements_allowed))
        => TypePhaseFails

\* ------------------------------------------------------------------------
\* a collection check of a one-element list with a check function made by
\* sanitize_value_fn
RoundTripCall ==
    /\ Done("sanitize_iterable") /\ args.element_check_fn.name = "sanitize_value_fn"
    /\ args.arg_value.ty = "list" /\ Len(args.arg_value.items) = 1

\* the outcome of sanitize_value called with the configuration the check
\* function was made with and the element as arg_value
DirectValueCheck ==
    LET fn == args.element_check_fn
    IN  sanitize_value(args.arg_value.items[1], fn.target_value, fn.complement,
                       fn.expand_target, fn.none_allowed, NoMsg, fn.equality_fn)

\* C11: the collection check of the one-element list [x] with
\* element_check_fn = sanitize_value_fn(configuration) accepts iff
\* sanitize_value called with the same configuration and arg_value = x
\* accepts, for every x, None included.
C11_RoundTrip == RoundTripCall => (Accepted <=> DirectValueCheck.exc = "none")

\* C11 for the elements that are not None: the round trip holds there
C11_RoundTripOfValues ==
    (RoundTripCall /\ args.arg_value.items[1] # PyNone)
        => (Accepted <=> DirectValueCheck.exc = "none")

\* ------------------------------------------------------------------------
\* a check function was passed
WithCheckFn == args.element_check_fn \notin {NoFn, NotCallable}

\* the exception of the last call of element_check_fn ("none" if it returned)
LastCallRaised ==
    ApplyCheckFn(args.element_check_fn, result.cb_calls[Len(result.cb_calls)])

\* C12: whenever element_check_fn raises on an element, whatever the class
\* of its exception, the collection check raises the ValueError of line 242
\* whose message shows the message of that exception, so that the class of
\* the exception of element_check_fn never leaves the call; when the phases
\* before pass and element_check_fn raises on no element, the check
\* succeeds.
C12_Reclassified ==
    (IterableCall /\ WithCheckFn)
        => /\ (result.cb_calls # <<>> /\ LastCallRaised # "none")
                  => /\ CustomElementViolation(result)
                     /\ result.cause = LastCallRaised
           /\ (/\ WellFormedDescriptor /\ args.arg_value # PyNone
               /\ ~NullViolated /\ ~TypeViolated /\ ~LengthViolated /\ ~CallbackViolated)
                  => Accepted

\* a TypeError of the check function surfaces as the ValueError of line 242
C12_Witness ==
    /\ IterableCall /\ WithCheckFn
    /\ result.cb_calls # <<>> /\ LastCallRaised = "TypeError"
    /\ CustomElementViolation(result) /\ result.cause = "TypeError"

\* ------------------------------------------------------------------------
\* the failure is raised by the section "Sanitize Args" of
\* sanitize_iterable for its constraint parameters
ConfigurationError(o) ==
    /\ o.exc # "none"
    /\ \/ o.via = <<>> /\ o.line \in {125, 144, 153, 163, 171}
       \/ o.via # <<>> /\ o.via[1] \in {115, 131, 133, 134, 136, 137, 139}

\* the collection is an iterable or an acceptable None
CollectionOrAbsent ==
    IsIterable(args.arg_value) \/ (args.arg_value = PyNone /\ args.none_allowed)

\* elements_type and element_check_fn pass their argument checks
TypesAndCallbackWellFormed ==
    /\ ElementsTypeCheck(args.elements_type) = Success
    /\ args.element_check_fn # NotCallable

\* target_length is given together with min_length or max_length
ConflictingLengths ==
    /\ args.target_length # PyNone
    /\ (args.min_length # PyNone \/ args.max_length # PyNone)

\* C13: sanitize_iterable called with target_length together with
\* min_length and/or max_length raises a configuration error for every
\* collection, also one that satisfies all the length constraints and also
\* None with none_allowed set, and calls no element check; when the other
\* constraints are well-formed and the collection has a length or is None,
\* the error is the ValueError of line 171.
C13_ConflictingLengths ==
    (Done("sanitize_iterable") /\ CollectionOrAbsent /\ ConflictingLengths)
        => /\ ConfigurationError(result)
           /\ result.cb_calls = <<>>
           /\ (TypesAndCallbackWellFormed /\ (IsSized(args.arg_value) \/ args.arg_value = PyNone))
                  => (result.exc = "ValueError" /\ result.line = 171 /\ result.via = <<>>)

\* a list whose length satisfies target_length, min_length and max_length is
\* refused with the ValueError of line 171
C13_Witness ==
    /\ Done("sanitize_iterable") /\ args.arg_value.ty = "list"
    /\ args.target_length = PyInt(1) /\ args.min_length = PyInt(1)
    /\ args.max_length = PyInt(1) /\ Len(Held) = 1
    /\ ~NullViolated /\ args.elements_type = PyNone
    /\ result.exc = "ValueError" /\ result.line = 171

\* ------------------------------------------------------------------------
\* min_length exceeds max_length
MinAboveMax ==
    /\ args.min_length # PyNone /\ args.max_length # PyNone
    /\ args.min_length.n > args.max_length.n

\* the failure is the ValueError that the range check of the length raises
\* for minimum > maximum
MinAboveMaxError(o) == o.exc = "ValueError" /\ o.line = 286 /\ o.via = <<223>>

\* C14: sanitize_iterable called with min_length > max_length raises a
\* configuration error for every collection, whatever its elements and its
\* length are, also for a collection with a disallowed None element or an
\* element of a wrong type and for None with none_allowed set.
C14_NotDataDependent ==
    (Done("sanitize_iterable") /\ CollectionOrAbsent /\ MinAboveMax)
        => (ConfigurationError(result) \/ MinAboveMaxError(result))

\* C14 on the sized collections that pass the None and the type phase: the
\* range check of the length refuses min_length > max_length there
C14_OfCollectionsThatPass ==
    (/\ Done("sanitize_iterable") /\ IsSized(args.arg_value) /\ MinAboveMax
     /\ ~NullViolated /\ ~TypeViolated)
        => (ConfigurationError(result) \/ MinAboveMaxError(result))

\* ------------------------------------------------------------------------
\* what a call ends in: success, or the class and the place of the failure
Kind(o) == <<o.exc, o.line, o.via>>

\* the outcome of the call with the default message in place of error_msg
WithDefaultMsg ==
    CASE op = "sanitize_type" ->
             sanitize_type(args.arg_value, args.target_type, args.none_allowed, NoMsg)
      [] op = "sanitize_range" ->
             sanitize_range(args.arg_value, args.minimum, args.maximum, args.min_inclusive,
                            args.max_inclusive, args.complement, NoMsg)
      [] op = "sanitize_value" ->
             sanitize_value(args.arg_value, args.target_value, args.complement,
                            args.expand_target, args.none_allowed, NoMsg, args.equality_fn)
      [] op = "sanitize_iterable" ->
             sanitize_iterable(args.arg_value, args.elements_type, args.target_length,
                               args.min_length, args.max_length, args.none_allowed,
                               args.none_elements_allowed, args.element_check_fn, NoMsg)

\* C15: for each of the four checks, every input and every message
\* template, the call with the template ends as the call with the default
\* message does: success stays success and a failure keeps its class and
\* its place.
C15_TemplateOnlyWording ==
    (pc = "done" /\ args.error_msg.given) => Kind(result) = Kind(WithDefaultMsg)

\* C15 for the templates whose fields are all among the keyword arguments
\* of the format call that the failing check makes: the outcome is that of
\* the default message
C15_TemplateAccepted ==
    (pc = "done" /\ args.error_msg.given /\ result.exc \notin {"KeyError", "IndexError"})
        => Kind(result) = Kind(WithDefaultMsg)

\* ------------------------------------------------------------------------
\* the constraint parameters pass the section "Sanitize Args" for a sized
\* collection, so at least one constraint is given, and min_length does not
\* exceed max_length
DescriptorWellFormed ==
    /\ IterableArgChecks(PyList(<<>>), args.elements_type, args.target_length,
                         args.min_length, args.max_length, args.none_allowed,
                         args.element_check_fn) = Success
    /\ ~MinAboveMax

\* C16: with a well-formed constraint descriptor that has at least one
\* constraint, sanitize_iterable of None returns when none_allowed is set,
\* without a failure of the None, type, length or callback phase and without
\* a call of element_check_fn, and raises the TypeError of a type mismatch
\* when none_allowed is not set.
C16_AbsentCollection ==
    (Done("sanitize_iterable") /\ args.arg_value = PyNone /\ DescriptorWellFormed)
        => /\ result.cb_calls = <<>>
           /\ args.none_allowed => Accepted
           /\ ~args.none_allowed => (TypeMismatch(result) /\ result.via = <<110>>)

\* None is accepted although target_length asks for one element and a
\* check function is given
C16_Witness ==
    /\ Done("sanitize_iterable") /\ args.arg_value = PyNone /\ DescriptorWellFormed
    /\ args.none_allowed /\ args.target_length = PyInt(1)
    /\ args.elements_type # PyNone /\ WithCheckFn
    /\ Accepted /\ result.cb_calls = <<>>

\* ------------------------------------------------------------------------
\* the elements of the collection that are not None, in iteration order
NonNullHeld == SelectSeq(Held, LAMBDA e : e # PyNone)

\* the callback phase is reached: a check function is given and the None,
\* type and length phase pass
CallbackPhaseReached ==
    /\ IterableCall /\ WithCheckFn /\ args.arg_value # PyNone /\ WellFormedDescriptor
    /\ ~NullViolated /\ ~TypeViolated /\ ~LengthViolated

\* C17: when element_check_fn is given and the None, type and length phase
\* pass, element_check_fn is called on every element that is not None, in
\* iteration order, also on the elements after one on which it raised.
C17_RunsToCompletion == CallbackPhaseReached => result.cb_calls = NonNullHeld

\* C17 as the loop of a list runs: the calls are the elements that are not
\* None up to the first on which element_check_fn raises, that one included
C17_UpToFirstRaise ==
    (CallbackPhaseReached /\ args.arg_value.ty = "list")
        => /\ IsPrefix(result.cb_calls, NonNullHeld)
           /\ \A i \in 1..(Len(result.cb_calls) - 1) :
                  ApplyCheckFn(args.element_check_fn, result.cb_calls[i]) = "none"
           /\ Len(result.cb_calls) < Len(NonNullHeld) => LastCallRaised # "none"

\* ------------------------------------------------------------------------
\* the position of the first element of the target sequence for which the
\* equality function holds, 0 if there is none
FirstMatch ==
    IF \E i \in DOMAIN TargetElements : Holds(args.arg_value, TargetElements[i])
    THEN CHOOSE i \in DOMAIN TargetElements :
             /\ Holds(args.arg_value, TargetElements[i])
             /\ \A j \in 1..(i - 1) : ~Holds(args.arg_value, TargetElements[j])
    ELSE 0

C19_AbsentValue ==
    (Done("sanitize_value") /\ args.arg_value = PyNone)
        => /\ args.none_allowed => (Accepted /\ result.eq_calls = <<>>)
           /\ (/\ ~args.none_allowed /\ args.error_msg = NoMsg
               /\ ~Expanded(args.target_value, args.expand_target)
               /\ Comparable(PyNone, args.target_value))
                  => /\ result.eq_calls = <<args.target_value>>
                     /\ Accepted <=> (Holds(PyNone, args.target_value) # args.complement)
           /\ (/\ ~args.none_allowed /\ args.error_msg = NoMsg
               /\ args.expand_target /\ SequenceTarget
               /\ \A i \in DOMAIN TargetElements : Comparable(PyNone, TargetElements[i]))
                  => /\ Len(TargetElements) > 0 => result.eq_calls # <<>>
                     /\ Accepted <=> ((\E i \in DOMAIN TargetElements :
                                           Holds(PyNone, TargetElements[i]))
                                      # args.complement)

\* None is accepted by a check with complement whose target list holds None
C19_Witness ==
    /\ Done("sanitize_value") /\ args.arg_value = PyNone /\ args.none_allowed
    /\ args.complement /\ args.expand_target /\ args.target_value.ty = "list"
    /\ \E i \in DOMAIN TargetElements : TargetElements[i] = PyNone
    /\ Accepted /\ result.eq_calls = <<>>

\* ------------------------------------------------------------------------
\* the target is neither a type nor an iterable, or it is an iterable that
\* holds a member that is not a type
MalformedTarget(t) ==
    IF IsIterable(t)
    THEN \E i \in DOMAIN Iter(t) : Iter(t)[i].ty # "type"
    ELSE t.ty # "type"

\* C20: sanitize_type with a target that is not a type, or a set of types
\* with a member that is not a type, raises the TypeError that describes the
\* target (line 383 or 390) for every value, also for None with none_allowed
\* set and for a value that is an instance of a type listed before the
\* member that is not a type.
C20_MalformedTarget ==
    (Done("sanitize_type") /\ MalformedTarget(args.target_type))
        => /\ result.exc = "TypeError" /\ result.via = <<>>
           /\ result.line = (IF IsIterable(args.target_type) THEN 383 ELSE 390)

\* the value is an instance of the first listed type and the second member
\* is not a type
C20_Witness ==
    /\ Done("sanitize_type") /\ args.target_type.ty = "list"
    /\ Len(args.target_type.items) = 2
    /\ IsType(args.target_type.items[1]) /\ ~IsType(args.target_type.items[2])
    /\ args.arg_value # PyNone
    /\ args.target_type.items[1].nm \in Bases(args.arg_value.ty)
    /\ result.exc = "TypeError" /\ result.line = 383

\* ------------------------------------------------------------------------
\* a collection check that allows None elements
NoneElementsAllowedCall ==
    /\ IterableCall /\ args.arg_value # PyNone /\ WellFormedDescriptor
    /\ args.none_elements_allowed

\* the elements that are not None pass the type constraint and the check
\* function, and the length with the None elements counted meets the length
\* constraint; element_check_fn is never called on None
NoneSkippedButCounted ==
    /\ Accepted <=> (~TypeViolated /\ ~LengthViolated /\ ~CallbackViolated)
    /\ \A i \in DOMAIN result.cb_calls : result.cb_calls[i] # PyNone

\* C21: with none_elements_allowed set, a collection is accepted iff each
\* of its elements that is not None passes the type constraint and
\* element_check_fn and its length, None elements included, meets the length
\* constraint; None is never passed to element_check_fn.
C21_NoneElementsAllowed == NoneElementsAllowedCall => NoneSkippedButCounted

\* C21 on collections that can be traversed repeatedly (lists)
C21_NoneElementsAllowedOfLists ==
    (NoneElementsAllowedCall /\ args.arg_value.ty = "list") => NoneSkippedButCounted

\* ------------------------------------------------------------------------
\* the condition a message of a range check prints, read for the number v:
\* the message names the parameter, then prints a comparison symbol and a
\* bound, for two bounds a connective and a second symbol and bound, and
\* last the rejected value
Compares(v, sym, bound) ==
    /\ bound.ty \in {"int", "bool"}
    /\ CASE sym = "<" -> v < bound.n
         [] sym = "<=" -> v <= bound.n
         [] sym = ">" -> v > bound.n
         [] sym = ">=" -> v >= bound.n
         [] OTHER -> FALSE

StatedCondition(text, v) ==
    IF Len(text) = 4 THEN Compares(v, text[2].s, text[3].v)
    ELSE IF text[4].s = "or"
    THEN Compares(v, text[2].s, text[3].v) \/ Compares(v, text[5].s, text[6].v)
    ELSE Compares(v, text[2].s, text[3].v) /\ Compares(v, text[5].s, text[6].v)

\* the numbers a message is read for
Probes == (-1)..(MaxNum + 1)

\* a call of sanitize_range with the default message that rejected its value
RangeRejected == RangeCall /\ result.exc = "ValueError" /\ result.line = 349

\* the same check accepts the number v
RangeAccepts(v) ==
    sanitize_range(PyInt(v), args.minimum, args.maximum, args.min_inclusive,
                   args.max_inclusive, args.complement, NoMsg) = Success

\* C23: the default message of sanitize_range states the accepted set: the
\* condition it prints (symbols, bounds, and the connective "and" of an
\* interval check or "or" of a two-sided complement check) is satisfied by
\* exactly the values the check accepts; after the rewrite of a one-sided
\* complement check the symbol and the bound are those of the rewritten
\* one-sided check.
C23_MessageStatesAcceptedSet ==
    RangeRejected =>
        /\ \A v \in Probes : StatedCondition(result.text, v) <=> RangeAccepts(v)
        /\ (args.minimum # PyNone /\ args.maximum # PyNone)
               => /\ Len(result.text) = 7
                  /\ result.text[4].s = (IF args.complement THEN "or" ELSE "and")
        /\ (args.complement /\ args.minimum = PyNone)
               => /\ Len(result.text) = 4
                  /\ result.text[2].s = MinSym(~args.max_inclusive, FALSE)
                  /\ result.text[3] = Shown(args.maximum)
        /\ (args.complement /\ args.maximum = PyNone)
               => /\ Len(result.text) = 4
                  /\ result.text[2].s = MaxSym(~args.min_inclusive, FALSE)
                  /\ result.text[3] = Shown(args.minimum)

\* a two-sided complement check rejected a value between its bounds and
\* printed both bounds joined by "or"
C23_Witness ==
    /\ RangeRejected /\ args.complement
    /\ args.minimum = PyInt(1) /\ args.maximum = PyInt(2)
    /\ args.min_inclusive /\ ~args.max_inclusive
    /\ result.text = <<Text("arg_name"), Text("<"), Shown(PyInt(1)), Text("or"),
                       Text(">="), Shown(PyInt(2)), Shown(args.arg_value)>>

\* ------------------------------------------------------------------------
\* the factory of range checks has run
FactoryRan == op = "sanitize_range_fn" /\ pc \in {"made", "done"}

\* sanitize_range called with the configuration the factory was given
DirectRangeCheck(x) ==
    sanitize_range(x, args.minimum, args.maximum, args.min_inclusive,
                   args.max_inclusive, args.complement, args.error_msg)

\* the configuration error of sanitize_range and the one of the factory: no
\* bound at all, or a minimum above the maximum
RangeConfigurationError(o) ==
    o.via = <<>> /\ ((o.exc = "TypeError" /\ o.line = 284) \/ (o.exc = "ValueError" /\ o.line = 286))

SameConfigurationError(made, direct) ==
    /\ made.via = <<>> /\ direct.via = <<>>
    /\ \/ made.exc = "TypeError" /\ made.line = 75 /\ direct.exc = "TypeError" /\ direct.line = 284
       \/ made.exc = "ValueError" /\ made.line = 77 /\ direct.exc = "ValueError" /\ direct.line = 286

\* C22: sanitize_range_fn either fails when it is called, with the
\* configuration error sanitize_range raises for the same configuration (no
\* bound; minimum above maximum), or returns a function that accepts a number
\* exactly when sanitize_range with the same configuration accepts it and
\* that never fails with a configuration error.
C22_FactoryOfRangeChecks ==
    FactoryRan =>
        IF check_fn = NoFn
        THEN /\ pc = "done"
             /\ \A v \in Probes : SameConfigurationError(result, DirectRangeCheck(PyInt(v)))
        ELSE /\ \A v \in Probes :
                   /\ (RangeFnCall(check_fn, PyInt(v)).exc = "none")
                          <=> (DirectRangeCheck(PyInt(v)).exc = "none")
                   /\ ~RangeConfigurationError(DirectRangeCheck(PyInt(v)))
             /\ \A x \in RangeArgValues : RangeFnCall(check_fn, x).line \notin {284, 286}
             /\ pc = "done" =>
                   /\ result = RangeFnCall(check_fn, args.arg_value)
                   /\ (result.exc = "none") <=> (DirectRangeCheck(args.arg_value).exc = "none")

\* a factory with equal bounds returned a function, and the function
\* rejected a number next to the bounds
C22_Witness ==
    /\ FactoryRan /\ pc = "done" /\ check_fn # NoFn
    /\ args.minimum = PyInt(2) /\ args.maximum = PyInt(2) /\ ~args.complement
    /\ args.arg_value = PyInt(3)
    /\ result.exc = "ValueError" /\ result.line = 349 /\ result.via = <<109>>

\* ------------------------------------------------------------------------
\* a function made by sanitize_range_fn with exactly one bound, complement
\* set and the default message has rejected a number
OneSidedComplementFnRejected ==
    /\ Done("sanitize_range_fn") /\ check_fn # NoFn
    /\ args.error_msg = NoMsg /\ args.complement
    /\ (args.minimum = PyNone) # (args.maximum = PyNone)
    /\ result.exc = "ValueError" /\ result.line = 349

\* the one bound the factory was given
ConfiguredBound == IF args.minimum = PyNone THEN args.maximum ELSE args.minimum

\* C24: when a function made by sanitize_range_fn with exactly one bound,
\* complement set and no template of the caller rejects a value, its message
\* prints the configured bound (not None) after the comparison symbol, and
\* the condition it prints is satisfied by exactly the accepted values.
C24_ShowsConfiguredBound ==
    OneSidedComplementFnRejected =>
        /\ result.text[3] = Shown(ConfiguredBound)
        /\ \A v \in Probes :
              StatedCondition(result.text, v) <=> (RangeFnCall(check_fn, PyInt(v)).exc = "none")

\* what the message of such a function prints: the symbol of the accepted
\* set, as the factory chose it from its arguments, followed by None, the
\* value of the bound that the rewrite in sanitize_range has emptied
C24_ShowsNone ==
    OneSidedComplementFnRejected =>
        /\ Len(result.text) = 4
        /\ result.text[2].s = (IF args.minimum = PyNone
                               THEN RangeFnMaxSym(args.max_inclusive, TRUE)
                               ELSE RangeFnMinSym(args.min_inclusive, TRUE))
        /\ result.text[3] = Shown(PyNone)
        /\ \A v \in Probes :
              Compares(v, result.text[2].s, ConfiguredBound)
                  <=> (RangeFnCall(check_fn, PyInt(v)).exc = "none")

\* ------------------------------------------------------------------------
\* a check of the elements of a single-pass iterable, without a length
\* constraint (which needs len() and so refuses every such iterable)
SinglePassCall ==
    /\ IterableCall /\ args.arg_value.ty = "generator"
    /\ (args.elements_type # PyNone \/ args.element_check_fn # NoFn)
    /\ args.target_length = PyNone /\ args.min_length = PyNone /\ args.max_length = PyNone

\* the same call with a list that holds the same elements
SameCallOnList ==
    sanitize_iterable(PyList(args.arg_value.items), args.elements_type, args.target_length,
                      args.min_length, args.max_length, args.none_allowed,
                      args.none_elements_allowed, args.element_check_fn, args.error_msg)

\* C25: for a single-pass iterable, sanitize_iterable with elements_type
\* and/or element_check_fn, and either value of none_elements_allowed,
\* accepts or rejects as it does for a list that holds the same elements.
C25_SinglePassAsList ==
    SinglePassCall => ((result.exc = "none") <=> (SameCallOnList.exc = "none"))

\* C25 for the calls that traverse the iterable once: none_elements_allowed
\* set and exactly one of elements_type and element_check_fn given
C25_OneTraversal ==
    (/\ SinglePassCall /\ args.none_elements_allowed
     /\ (args.elements_type = PyNone) # (args.element_check_fn = NoFn))
        => ((result.exc = "none") <=> (SameCallOnList.exc = "none"))

====
